---- MODULE Spec2Model ----
(***************************************************************************)
(* A model of libfat16: the read-only FAT16 reader of src/src/fat16.cpp.   *)
(* An image is a byte array behind a single read/seek cursor; the Image    *)
(* facade decodes the boot block, walks FAT chains, reads ranges of a      *)
(* cluster chain, iterates directory records and decodes names.            *)
(*                                                                         *)
(* Offsets are 32-bit unsigned in the code.  Every image of the model is   *)
(* far shorter than 2^31 bytes, so an offset is kept as the mathematical   *)
(* integer; a negative value p stands for the wrapped offset 2^32 + p,     *)
(* which lies behind the end of every image: a read there returns nothing. *)
(***************************************************************************)
EXTENDS Integers, Sequences, FiniteSets, TLC

VARIABLES
    image,        \* the bytes behind the ImageSource (never written)
    charSigned,   \* whether plain char is signed in this build
    phase,        \* "new", "ready", "reading" (inside read_from_cluster), "crashed"
    boot_block,   \* Image::boot_block as decoded by the constructor
    pos,          \* the ImageSource cursor
    entries,      \* the caller's Entry cursors
    call,         \* the read_from_cluster call in progress: its locals
    last          \* the last call: operation, arguments, results, reads issued

vars == <<image, charSigned, phase, boot_block, pos, entries, call, last>>

(***************************************************************************)
(* Sizes and marks fixed by the code.                                      *)
(***************************************************************************)
BootBlockSize == 512
RecordSize == 32
ClusterIdSize == 2
FirstDataCluster == 2
CounterMod == 256
LfnAttrib == 15
DirectoryBit == 16
ArchiveBit == 32
MarkUnused == 0
MarkDeleted == 229
MarkDot == 46
MarkE5 == 5
Space == 32

(***************************************************************************)
(* Bounds of the model.                                                    *)
(***************************************************************************)
MaxOffset == 3
MaxSize == 5
MaxLfn == 2

Min(a, b) == IF a < b THEN a ELSE b

Lo(v) == v % 256
Hi(v) == (v \div 256) % 256
LE16(lo, hi) == lo + 256 * hi

Zeros(n) == [i \in 1..n |-> 0]

\* dest with data written at 0-based offset at
Overwrite(dest, at, data) ==
    [i \in 1..Len(dest) |->
        IF i > at /\ i <= at + Len(data) THEN data[i - at] ELSE dest[i]]

(***************************************************************************)
(* Division by zero is undefined behaviour.  A build either traps, or      *)
(* (hardware without a divide trap) yields quotient 0 and remainder a.     *)
(***************************************************************************)
Div(a, b) == IF b = 0 THEN 0 ELSE a \div b
Mod(a, b) == IF b = 0 THEN a ELSE a % b

(***************************************************************************)
(* BootBlock geometry.                                                     *)
(***************************************************************************)
fat_region_start(bb) == bb.num_reserved_blocks * bb.bytes_per_block

root_directory_region_start(bb) ==
    fat_region_start(bb) + (bb.num_fat * bb.num_blocks_per_fat) * bb.bytes_per_block

data_region_start(bb) ==
    root_directory_region_start(bb) + bb.num_root_dirs * RecordSize

bytes_per_cluster(bb) == bb.bytes_per_block * bb.num_blocks_per_allocation_unit

(***************************************************************************)
(* On-disk encodings (fat16.h, packed structs, little-endian).  These      *)
(* build the bytes of the images the model reads; the reader decodes them  *)
(* again with the operators further down.                                  *)
(***************************************************************************)
\* BootBlock: bytes_per_block at 11, num_blocks_per_allocation_unit at 13,
\* num_reserved_blocks at 14, num_fat at 16, num_root_dirs at 17,
\* num_blocks_per_fat at 22, boot_block_sig at 510.
BootByte(bb, p) ==
    CASE p = 11 -> Lo(bb.bytes_per_block)
      [] p = 12 -> Hi(bb.bytes_per_block)
      [] p = 13 -> bb.num_blocks_per_allocation_unit
      [] p = 14 -> Lo(bb.num_reserved_blocks)
      [] p = 15 -> Hi(bb.num_reserved_blocks)
      [] p = 16 -> bb.num_fat
      [] p = 17 -> Lo(bb.num_root_dirs)
      [] p = 18 -> Hi(bb.num_root_dirs)
      [] p = 22 -> Lo(bb.num_blocks_per_fat)
      [] p = 23 -> Hi(bb.num_blocks_per_fat)
      [] p = 510 -> 85
      [] p = 511 -> 170
      [] OTHER -> 0

\* LongFileNameEntry: position at 0, name_part_1 at 1, attrib at 11, type at
\* 12, checksum at 13, name_part_2 at 14, padding at 26, name_part_3 at 28.
LfnRecord(position, units, padding) ==
    [i \in 1..RecordSize |->
        LET o == i - 1
            unit(k, odd) == IF odd = 0 THEN Lo(units[k + 1]) ELSE Hi(units[k + 1])
        IN  CASE o = 0 -> position
              [] o \in 1..10 -> unit((o - 1) \div 2, (o - 1) % 2)
              [] o = 11 -> LfnAttrib
              [] o \in 12..13 -> 0
              [] o \in 14..25 -> unit(5 + ((o - 14) \div 2), (o - 14) % 2)
              [] o = 26 -> Lo(padding)
              [] o = 27 -> Hi(padding)
              [] OTHER -> unit(11 + ((o - 28) \div 2), (o - 28) % 2)]

\* FundamentalEntry: filename at 0, filename_ext at 8, file_attributes at 11,
\* starting_cluster at 26, file_size at 28.
FundRecord(name, ext, attributes, cluster, size) ==
    [i \in 1..RecordSize |->
        LET o == i - 1
        IN  CASE o \in 0..7 -> name[o + 1]
              [] o \in 8..10 -> ext[o - 7]
              [] o = 11 -> attributes
              [] o = 26 -> Lo(cluster)
              [] o = 27 -> Hi(cluster)
              [] o = 28 -> Lo(size)
              [] o = 29 -> Hi(size)
              [] OTHER -> 0]

\* the content of a file's cluster c: bytes that differ from cluster to cluster
FileCluster(c, n) == [j \in 1..n |-> (16 * c + j) % 256]

Geometry(bpb, bpau, reserved, nfat, nroot, bpf) ==
    [bytes_per_block |-> bpb, num_blocks_per_allocation_unit |-> bpau,
     num_reserved_blocks |-> reserved, num_fat |-> nfat,
     num_root_dirs |-> nroot, num_blocks_per_fat |-> bpf]

\* 2-byte clusters, one root slot, one FAT of 8 entries, clusters 2..7
GeoA == Geometry(1, 2, 512, 1, 1, 16)
\* 1-byte clusters, no root slot, one FAT of 260 entries, clusters 2..259
GeoH == Geometry(1, 1, 512, 1, 0, 520)
\* 64-byte clusters (two records each), four root slots, two FATs of 16 entries
GeoD == Geometry(32, 2, 16, 2, 4, 1)

\* the largest ClusterID, and 0xFFF8, the lowest mark of the end of a chain
EOC == 65535
EOC8 == EOC - 7

\* 2 -> 3 -> 4 -> end; 5 -> end; 6 -> 7 -> 6 (a cycle)
FatA1 == <<EOC8, EOC, 3, 4, EOC, EOC8, 7, 6>>
\* 2 -> 5 -> 3 -> end (not contiguous); 4 -> 0 (free); 6 -> 7 -> end
FatA2 == <<EOC8, EOC, 5, EOC, 0, 3, 7, EOC8>>
\* 2 -> 3 -> ... -> 259 -> end
FatH == [i \in 1..260 |-> IF i = 1 THEN EOC8 ELSE IF i = 2 \/ i = 260 THEN EOC ELSE i]
\* 2 -> end (a file); 3 -> 5 -> 4 -> end (a directory); 6 -> end (a directory)
FatD == <<EOC8, EOC, EOC, 5, EOC, 4, EOC8>>

NameHELLO == <<72, 69, 76, 76, 79, 32, 32, 32>>
NameFILE == <<70, 73, 76, 69, 32, 32, 32, 32>>
NameSUB == <<83, 85, 66, 32, 32, 32, 32, 32>>
NameSUB2 == <<83, 85, 66, 50, 32, 32, 32, 32>>
NameDot == <<46, 32, 32, 32, 32, 32, 32, 32>>
NameDotDot == <<46, 46, 32, 32, 32, 32, 32, 32>>
NameE5ABC == <<5, 65, 66, 67, 32, 32, 32, 32>>
NameDeleted == <<229, 65, 66, 67, 68, 32, 32, 32>>
NameCutByNul == <<65, 66, 0, 67, 68, 32, 32, 32>>
NameUnused == <<0, 0, 0, 0, 0, 0, 0, 0>>
NameDot05 == <<46, 5, 66, 32, 32, 32, 32, 32>>
ExtTXT == <<84, 88, 84>>
ExtNone == <<32, 32, 32>>
ExtNul == <<0, 0, 0>>

\* thirteen code units: "long file nam" and "e.txt" closed by 0x0000, 0xFFFF
UnitsA == <<108, 111, 110, 103, 32, 102, 105, 108, 101, 32, 110, 97, 109>>
UnitsB == <<101, 46, 116, 120, 116, 0, EOC, EOC, EOC, EOC, EOC, EOC, EOC>>
\* a 0x0000 followed by further non-zero units in the same record
UnitsC == <<120, 121, 0, 122, 122, 122, 122, 122, 122, 122, 122, 122, 122>>
\* 0x0000 is the first unit of the second run, and of the third run
UnitsD == <<97, 98, 99, 100, 101, 0, 102, 103, 104, 105, 106, 107, 108>>
UnitsE == <<97, 98, 99, 100, 101, 102, 103, 104, 105, 106, 107, 0, 109>>

RecHello == FundRecord(NameHELLO, ExtTXT, ArchiveBit, 2, 40)
RecSub == FundRecord(NameSUB, ExtNone, DirectoryBit, 3, 0)
RecSub2 == FundRecord(NameSUB2, ExtNone, DirectoryBit, 6, 0)
RecFile == FundRecord(NameFILE, ExtNone, ArchiveBit, 2, 5)
RecLfnA == LfnRecord(1, UnitsA, 0)
RecLfnB == LfnRecord(66, UnitsB, 0)
\* attribute 0x0F with a non-zero word at offset 26: not a long-name record
RecOddAttr == FundRecord(NameE5ABC, ExtTXT, LfnAttrib, 2, 0)

\* the subdirectory at cluster 3: six records in the chain 3 -> 5 -> 4
DirCluster3 == FundRecord(NameDot, ExtNone, DirectoryBit, 3, 0)
                 \o FundRecord(NameDotDot, ExtNone, DirectoryBit, 0, 0)
DirCluster5 == RecLfnB \o RecLfnA
DirCluster4 == RecHello \o RecOddAttr
\* the subdirectory at cluster 6: one cluster that ends in a long-name record
DirCluster6 == FundRecord(NameDeleted, ExtTXT, ArchiveBit, 2, 0) \o RecLfnA

ClustersA == [k \in 1..6 |-> FileCluster(k + 1, 2)]
ClustersH == [k \in 1..258 |-> FileCluster(k + 1, 1)]
ClustersD == <<FileCluster(2, 64), DirCluster3, DirCluster4, DirCluster5, DirCluster6>>

RootA == <<RecFile>>
RootD1 == <<RecLfnB, RecLfnA, RecHello, RecSub>>
RootD2 == <<RecSub2, RecHello, RecLfnB, RecLfnA>>

ImageRec(bb, lay, fat, rootdir, clusters, len, starts) ==
    [bb |-> bb, lay |-> lay, fat |-> fat, rootdir |-> rootdir,
     clusters |-> clusters, len |-> len, starts |-> starts]

(***************************************************************************)
(* The images of the model, by name.  bb is what the boot sector says, lay *)
(* the geometry the rest of the image is laid out by (the same, except in  *)
(* the images whose boot sector is malformed), len the number of bytes the *)
(* source supplies, starts the clusters the caller asks for.               *)
(***************************************************************************)
ImageNames ==
    {"A1", "A2", "A1cut", "A1fatcut", "H", "D1", "D2", "D1cut",
     "ZeroBlock", "ZeroUnit", "Short16", "Short100"}

Img(name) ==
    CASE name = "A1" -> ImageRec(GeoA, GeoA, FatA1, RootA, ClustersA, 572, {2, 5, 6})
      [] name = "A2" -> ImageRec(GeoA, GeoA, FatA2, RootA, ClustersA, 572, {2, 4})
      \* cluster 4 has only its first byte
      [] name = "A1cut" -> ImageRec(GeoA, GeoA, FatA1, RootA, ClustersA, 565, {2})
      \* the FAT entry of cluster 3 has only its first byte
      [] name = "A1fatcut" -> ImageRec(GeoA, GeoA, FatA1, RootA, ClustersA, 519, {2})
      [] name = "H" -> ImageRec(GeoH, GeoH, FatH, <<>>, ClustersH, 1290, {2})
      [] name = "D1" -> ImageRec(GeoD, GeoD, FatD, RootD1, ClustersD, 1024, {3})
      [] name = "D2" -> ImageRec(GeoD, GeoD, FatD, RootD2, ClustersD, 1024, {6})
      \* the third root slot has only its first sixteen bytes
      [] name = "D1cut" -> ImageRec(GeoD, GeoD, FatD, RootD1, ClustersD, 656, {3})
      [] name = "ZeroBlock" ->
            ImageRec([GeoA EXCEPT !.bytes_per_block = 0], GeoA, FatA1, RootA,
                     ClustersA, 572, {2})
      [] name = "ZeroUnit" ->
            ImageRec([GeoA EXCEPT !.num_blocks_per_allocation_unit = 0], GeoA, FatA1,
                     RootA, ClustersA, 572, {2})
      [] name = "Short16" -> ImageRec(GeoA, GeoA, FatA1, RootA, ClustersA, 16, {2})
      [] name = "Short100" -> ImageRec(GeoA, GeoA, FatA1, RootA, ClustersA, 100, {2})

\* the byte at absolute offset p of the full, untruncated image
ImageByte(im, p) ==
    LET g == im.lay
        fatAt == fat_region_start(g)
        rootAt == root_directory_region_start(g)
        dataAt == data_region_start(g)
        bpc == bytes_per_cluster(g)
        fatLen == g.num_blocks_per_fat * g.bytes_per_block
    IN  IF p < BootBlockSize THEN BootByte(im.bb, p)
        ELSE IF p < fatAt THEN 0
        ELSE IF p < rootAt THEN
            LET q == (p - fatAt) % fatLen
                v == IF q \div 2 < Len(im.fat) THEN im.fat[(q \div 2) + 1] ELSE 0
            IN  IF q % 2 = 0 THEN Lo(v) ELSE Hi(v)
        ELSE IF p < dataAt THEN
            im.rootdir[((p - rootAt) \div RecordSize) + 1][((p - rootAt) % RecordSize) + 1]
        ELSE
            LET c == (p - dataAt) \div bpc
            IN  IF c < Len(im.clusters) THEN im.clusters[c + 1][((p - dataAt) % bpc) + 1]
                ELSE 0

(***************************************************************************)
(* ImageSource: the read and seek hooks (fread / fseek+ftell on a file).   *)
(* read returns the bytes between the cursor and the end of the image, at  *)
(* most n, and advances the cursor by what it returned.                    *)
(***************************************************************************)
read_func(im, at, n) ==
    LET avail == IF at < 0 \/ at >= im.len THEN 0 ELSE Min(n, im.len - at)
    IN  [data |-> [i \in 1..avail |-> ImageByte(im, at + i - 1)],
         pos |-> at + avail]

\* one entry of the log of reads a call issues
IoRec(kind, at, want, got) == [kind |-> kind, at |-> at, want |-> want, got |-> got]

(***************************************************************************)
(* Image::Image.  A short read of the boot block is not acted on; the      *)
(* fields the read did not reach keep indeterminate values (junk).         *)
(***************************************************************************)
GarbageBytes == {0, 1}

BootFieldOffsets == {11, 13, 14, 16, 17, 22}

DecodeBootBlock(data, junk) ==
    LET b(o, f) == IF o < Len(data) THEN data[o + 1] ELSE junk[f]
    IN  [bytes_per_block |-> LE16(b(11, 11), b(12, 11)),
         num_blocks_per_allocation_unit |-> b(13, 13),
         num_reserved_blocks |-> LE16(b(14, 14), b(15, 14)),
         num_fat |-> b(16, 16),
         num_root_dirs |-> LE16(b(17, 17), b(18, 17)),
         num_blocks_per_fat |-> LE16(b(22, 22), b(23, 22))]

(***************************************************************************)
(* Image::get_successor_cluster.  (The operators below take the result of  *)
(* each read or call as a parameter of the operator that goes on from it.) *)
(***************************************************************************)
\* lines 71-76, with r the two-byte read at fatAt
successor_after_read(current, fatAt, r) ==
    IF Len(r.data) # ClusterIdSize
    THEN [next |-> 0, pos |-> r.pos,
          io |-> <<IoRec("fat", fatAt, ClusterIdSize, Len(r.data))>>]
    ELSE [next |-> LE16(r.data[1], r.data[2]), pos |-> current,
          io |-> <<IoRec("fat", fatAt, ClusterIdSize, Len(r.data))>>]

get_successor_cluster(im, bb, at, target) ==
    successor_after_read(at, fat_region_start(bb) + target * ClusterIdSize,
        read_func(im, fat_region_start(bb) + target * ClusterIdSize, ClusterIdSize))

(***************************************************************************)
(* Image::read_from_cluster.                                               *)
(***************************************************************************)
SkipState(st, s) == [cur |-> s.next, pos |-> s.pos, io |-> st.io \o s.io]

\* lines 98-101: walk the chain to the cluster the offset lies in
RECURSIVE SkipClusters(_, _, _, _)
SkipClusters(im, bb, st, dist) ==
    IF dist = 0 THEN st
    ELSE SkipClusters(im, bb,
             SkipState(st, get_successor_cluster(im, bb, st.pos, st.cur)), dist - 1)

\* The log of reads stops where a loop that never ends (see ClusterLoop) has
\* asked for its last byte: from there on it reads nothing, for ever.
Logged(st, io) == IF st.wrapped /\ st.left = 0 THEN <<>> ELSE io

\* PassState with a fault seeded: the loop stays on the cluster it is on
PassState_same_cluster(st, at, take, r, s) ==
    [i |-> (st.i + 1) % CounterMod,
     wrapped |-> st.wrapped \/ st.i + 1 = CounterMod,
     cur |-> st.cur,
     left |-> st.left - take,
     done |-> st.done + take,
     dest |-> Overwrite(st.dest, st.done, r.data),
     pos |-> s.pos,
     io |-> st.io \o Logged(st, <<IoRec("data", at, take, Len(r.data))>> \o s.io)]

\* lines 120-124, with r the read of this pass and s the successor found
PassState(st, at, take, r, s) ==
    [i |-> (st.i + 1) % CounterMod,
     wrapped |-> st.wrapped \/ st.i + 1 = CounterMod,
     cur |-> s.next,
     left |-> st.left - take,
     done |-> st.done + take,
     dest |-> Overwrite(st.dest, st.done, r.data),
     pos |-> s.pos,
     io |-> st.io \o Logged(st, <<IoRec("data", at, take, Len(r.data))>> \o s.io)]

PassAfterRead(im, bb, st, at, take, r) ==
    PassState(st, at, take, r, get_successor_cluster(im, bb, r.pos, st.cur))

\* size_to_read_this_take with a fault seeded: no std::min against what is left
size_to_read_whole_cluster(bb, st) == bytes_per_cluster(bb)

\* line 115
size_to_read_this_take(bb, st) == Min(bytes_per_cluster(bb), st.left)

\* lines 113-124: one pass of the for loop
ClusterPass(im, bb, base, st) ==
    PassAfterRead(im, bb, st,
        base + (st.cur - FirstDataCluster) * bytes_per_cluster(bb),
        size_to_read_this_take(bb, st),
        read_func(im, base + (st.cur - FirstDataCluster) * bytes_per_cluster(bb),
                  size_to_read_this_take(bb, st)))

\* line 112: for (std::uint8_t i = 0; i < total_cluster_to_read; i++).  Once i
\* has wrapped, total_cluster_to_read exceeds every value i takes and the loop
\* never ends; the passes after the last byte was asked for write nothing.
RECURSIVE ClusterLoop(_, _, _, _, _)
ClusterLoop(im, bb, base, total, st) ==
    IF ~(st.i < total) THEN st
    ELSE IF st.wrapped /\ st.left = 0 THEN st
    ELSE ClusterLoop(im, bb, base, total, ClusterPass(im, bb, base, st))

DivisionByZero(bb) ==
    bb.bytes_per_block = 0 \/ bb.num_blocks_per_allocation_unit = 0

\* lines 86-88
total_cluster_to_read(bb, size) ==
    Div(Div(size + bb.bytes_per_block - 1, bb.bytes_per_block)
            + bb.num_blocks_per_allocation_unit - 1,
        bb.num_blocks_per_allocation_unit)

\* lines 90-91
from_start_cluster_dist(bb, offset) ==
    Div(Div(offset, bb.bytes_per_block), bb.num_blocks_per_allocation_unit)

\* lines 93 and 104-105
offset_start_data_area(bb, offset) ==
    data_region_start(bb) + Mod(offset, bytes_per_cluster(bb))

\* lines 95-110, with sk the state after the walk to the first cluster
BeginState(bb, dest_buffer, offset, size, sk) ==
    [base |-> offset_start_data_area(bb, offset),
     total |-> total_cluster_to_read(bb, size),
     st |-> [i |-> 0, wrapped |-> FALSE, cur |-> sk.cur, left |-> size,
             done |-> 0, dest |-> dest_buffer,
             pos |-> offset_start_data_area(bb, offset), io |-> sk.io]]

\* lines 86-110: the counts, the walk to the first cluster, the first seek
read_begin(im, bb, at, dest_buffer, offset, starting_cluster, size) ==
    BeginState(bb, dest_buffer, offset, size,
        SkipClusters(im, bb, [cur |-> starting_cluster, pos |-> at, io |-> <<>>],
                     from_start_cluster_dist(bb, offset)))

\* line 128, with st the state the loop ends in
ReadResult(bb, size, st) ==
    [ret |-> size - st.left, dest |-> st.dest, pos |-> st.pos, io |-> st.io,
     hung |-> st.wrapped, trap |-> DivisionByZero(bb)]

LoopFrom(im, bb, b) == ClusterLoop(im, bb, b.base, b.total, b.st)

\* the whole call, as get_next_entry makes it
read_from_cluster(im, bb, at, dest_buffer, offset, starting_cluster, size) ==
    ReadResult(bb, size,
        LoopFrom(im, bb,
            read_begin(im, bb, at, dest_buffer, offset, starting_cluster, size)))

(***************************************************************************)
(* Record fields, decoded from the 32 bytes of a slot.                     *)
(***************************************************************************)
attrib(rec) == rec[12]
padding(rec) == LE16(rec[27], rec[28])
file_attributes(rec) == rec[12]
starting_cluster(rec) == LE16(rec[27], rec[28])
filename(rec) == SubSeq(rec, 1, 8)
filename_ext(rec) == SubSeq(rec, 9, 11)

IsLfn(rec) == attrib(rec) = LfnAttrib /\ padding(rec) = 0

NewEntry ==
    [cursor_record |-> 0, root |-> 0, extended_entries |-> <<>>,
     entry |-> Zeros(RecordSize)]

(***************************************************************************)
(* Image::get_next_entry.                                                  *)
(***************************************************************************)
SlotFromCluster(r) ==
    [ok |-> r.ret = RecordSize, dest |-> r.dest, pos |-> r.pos, io |-> r.io,
     hung |-> r.hung, trap |-> r.trap]

SlotFromSource(at, dest, r) ==
    [ok |-> Len(r.data) = RecordSize, dest |-> Overwrite(dest, 0, r.data),
     pos |-> r.pos, io |-> <<IoRec("dir", at, RecordSize, Len(r.data))>>,
     hung |-> FALSE, trap |-> FALSE]

\* lines 146-153 and 169-176: read one slot into dest, through the cluster
\* reader for a subdirectory and straight from the source for the root
ReadSlot(im, bb, at, e, dest) ==
    IF e.root # 0
    THEN SlotFromCluster(
             read_from_cluster(im, bb, at, dest, e.cursor_record, e.root, RecordSize))
    ELSE SlotFromSource(at, dest, read_func(im, at, RecordSize))

\* lines 147-153: the read failed, return false
LfnFailed(st, r) ==
    [st EXCEPT !.status = "failed", !.pos = r.pos, !.io = st.io \o r.io,
               !.hung = r.hung, !.trap = r.trap]

\* lines 157-158 and 166: a long-name record; go on unless the cursor is at
\* num_root_dirs
LfnPushed(bb, st, r) ==
    [st EXCEPT !.e = [st.e EXCEPT !.cursor_record = @ + RecordSize,
                                  !.extended_entries = Append(@, r.dest)],
               !.extended_entry = r.dest, !.pos = r.pos, !.io = st.io \o r.io,
               !.trap = r.trap,
               !.status = IF (st.e.cursor_record + RecordSize) \div RecordSize
                              # bb.num_root_dirs
                          THEN "loop" ELSE "done"]

\* lines 160-164: not a long-name record; seek back (root only) and break
LfnBreak(offset_root_dir, st, r) ==
    [st EXCEPT !.extended_entry = r.dest, !.io = st.io \o r.io, !.trap = r.trap,
               !.status = "done",
               !.pos = IF st.e.root = 0 THEN offset_root_dir + st.e.cursor_record
                       ELSE r.pos]

\* one pass of the do-while loop of lines 145-166, with r the slot read
LfnPass(bb, offset_root_dir, st, r) ==
    IF r.hung \/ ~r.ok THEN LfnFailed(st, r)
    ELSE IF IsLfn(r.dest) THEN LfnPushed(bb, st, r)
    ELSE LfnBreak(offset_root_dir, st, r)

RECURSIVE LfnLoop(_, _, _, _)
LfnLoop(im, bb, offset_root_dir, st) ==
    IF st.status # "loop" THEN st
    ELSE LfnLoop(im, bb, offset_root_dir,
             LfnPass(bb, offset_root_dir, st,
                     ReadSlot(im, bb, st.pos, st.e, st.extended_entry)))

\* EntryRead with a fault seeded: the cursor stays on the record it yielded
EntryRead_cursor_stays(l, f) ==
    IF f.hung \/ ~f.ok
    THEN [ret |-> FALSE, e |-> [l.e EXCEPT !.entry = f.dest], pos |-> f.pos,
          io |-> l.io \o f.io, hung |-> f.hung, trap |-> f.trap]
    ELSE [ret |-> TRUE, e |-> [l.e EXCEPT !.entry = f.dest],
          pos |-> f.pos, io |-> l.io \o f.io, hung |-> FALSE, trap |-> f.trap]

\* lines 169-180, with l the state after the loop and f the slot read
EntryRead(l, f) ==
    IF f.hung \/ ~f.ok
    THEN [ret |-> FALSE, e |-> [l.e EXCEPT !.entry = f.dest], pos |-> f.pos,
          io |-> l.io \o f.io, hung |-> f.hung, trap |-> f.trap]
    ELSE [ret |-> TRUE,
          e |-> [l.e EXCEPT !.entry = f.dest, !.cursor_record = @ + RecordSize],
          pos |-> f.pos, io |-> l.io \o f.io, hung |-> FALSE, trap |-> f.trap]

AfterLfnLoop(im, bb, l) ==
    IF l.status = "failed"
    THEN [ret |-> FALSE, e |-> l.e, pos |-> l.pos, io |-> l.io, hung |-> l.hung,
          trap |-> l.trap]
    ELSE EntryRead(l, ReadSlot(im, bb, l.pos, l.e, l.e.entry))

\* the local extended_entry of line 142 starts as its member initialisers make
\* it: all zero
get_next_entry(im, bb, at, e) ==
    IF e.cursor_record \div RecordSize >= bb.num_root_dirs
    THEN [ret |-> FALSE, e |-> e, pos |-> at, io |-> <<>>, hung |-> FALSE,
          trap |-> FALSE]
    ELSE AfterLfnLoop(im, bb,
             LfnLoop(im, bb, root_directory_region_start(bb),
                 [e |-> [e EXCEPT !.extended_entries = <<>>],
                  extended_entry |-> Zeros(RecordSize),
                  pos |-> root_directory_region_start(bb) + e.cursor_record,
                  io |-> <<>>, status |-> "loop", hung |-> FALSE, trap |-> FALSE]))

(***************************************************************************)
(* Image::get_first_entry_dir.                                             *)
(***************************************************************************)
HasBit(v, bit) == (v \div bit) % 2 = 1

\* get_first_entry_dir with a fault seeded: the cursor of first is not reset
get_first_entry_dir_keeps_cursor(parent, first) ==
    IF ~HasBit(file_attributes(parent.entry), DirectoryBit)
    THEN [ret |-> FALSE, first |-> first]
    ELSE [ret |-> TRUE, first |-> [first EXCEPT !.root = starting_cluster(parent.entry)]]

get_first_entry_dir(parent, first) ==
    IF ~HasBit(file_attributes(parent.entry), DirectoryBit)
    THEN [ret |-> FALSE, first |-> first]
    ELSE [ret |-> TRUE,
          first |-> [first EXCEPT !.root = starting_cluster(parent.entry),
                                  !.cursor_record = 0]]

(***************************************************************************)
(* FundamentalEntry::get_entry_type_from_filename and ::get_filename.      *)
(***************************************************************************)
get_entry_type_from_filename(rec) ==
    CASE rec[1] = MarkUnused -> "UNUSED"
      [] rec[1] = MarkDeleted -> "DELETED"
      [] rec[1] = MarkDot -> "DIRECTORY"
      [] OTHER -> "FILE"

\* std::string(const char *): the bytes before the first NUL
RECURSIVE CString(_)
CString(bytes) ==
    IF bytes = <<>> \/ Head(bytes) = 0 THEN <<>>
    ELSE <<Head(bytes)>> \o CString(Tail(bytes))

\* while (length() > 0 && back() == ' ') pop_back();
RECURSIVE TrimSpaces(_)
TrimSpaces(str) ==
    IF Len(str) > 0 /\ str[Len(str)] = Space
    THEN TrimSpaces(SubSeq(str, 1, Len(str) - 1))
    ELSE str

Fundamental_get_filename(rec) ==
    LET etype == get_entry_type_from_filename(rec)
        s0 == CString(rec)
        s1 == IF Len(s0) > 8 THEN SubSeq(s0, 1, 8) ELSE s0
        s2 == IF etype # "FILE" /\ Len(s1) > 0 THEN Tail(s1) ELSE s1
        s3 == IF Len(s2) > 0 /\ s2[1] = MarkE5
              THEN <<MarkDeleted>> \o Tail(s2) ELSE s2
    IN  TrimSpaces(s3)

\* char to char16_t: a signed char above 0x7F is sign-extended
ToChar16(signed, b) == IF signed /\ b >= 128 THEN 65280 + b ELSE b

(***************************************************************************)
(* Entry::get_filename.                                                    *)
(***************************************************************************)
\* name_part_1[i], name_part_2[i], name_part_3[i]; the loops read index 5, 6
\* and 2 before they test the index: the first two are the bytes that follow
\* in the record, the third lies behind the record (oob)
name_part(rec, part, i, oob) ==
    LET o == (CASE part = 1 -> 1 [] part = 2 -> 14 [] OTHER -> 28) + 2 * i
    IN  IF o + 2 <= RecordSize THEN LE16(rec[o + 1], rec[o + 2]) ELSE oob

PartLength(part) == CASE part = 1 -> 5 [] part = 2 -> 6 [] OTHER -> 2

\* while (part[i] != 0 && i < n) final_name += part[i++];
\* if (i < n && part[i] == 0) break;
RECURSIVE ScanPart(_, _, _, _, _)
ScanPart(rec, part, i, oob, acc) ==
    IF name_part(rec, part, i, oob) # 0 /\ i < PartLength(part)
    THEN ScanPart(rec, part, i + 1, oob, Append(acc, name_part(rec, part, i, oob)))
    ELSE [name |-> acc,
          stop |-> i < PartLength(part) /\ name_part(rec, part, i, oob) = 0]

\* ScanRecord with a fault seeded: a 0x0000 ends a run but never the name
ScanRecord_no_break(rec, oob, acc) ==
    [name |-> ScanPart(rec, 3, 0, oob,
                  ScanPart(rec, 2, 0, oob, ScanPart(rec, 1, 0, oob, acc).name).name).name,
     stop |-> FALSE]

\* one pass of the for loop of lines 209-239
ScanRecord(rec, oob, acc) ==
    LET p1 == ScanPart(rec, 1, 0, oob, acc)
        p2 == ScanPart(rec, 2, 0, oob, p1.name)
        p3 == ScanPart(rec, 3, 0, oob, p2.name)
    IN  IF p1.stop THEN p1 ELSE IF p2.stop THEN p2 ELSE p3

\* for (j = size() - 1; j >= 0; j--)
RECURSIVE ScanRecords(_, _, _, _)
ScanRecords(recs, j, oob, acc) ==
    IF j < 1 THEN acc
    ELSE LET r == ScanRecord(recs[j], oob, acc)
         IN  IF r.stop THEN r.name ELSE ScanRecords(recs, j - 1, oob, r.name)

Entry_get_filename(e, signed, oob) ==
    IF Len(e.extended_entries) # 0
    THEN ScanRecords(e.extended_entries, Len(e.extended_entries), oob, <<>>)
    ELSE LET final_name ==
                 TrimSpaces(Fundamental_get_filename(e.entry) \o filename_ext(e.entry))
         IN  [i \in 1..Len(final_name) |-> ToChar16(signed, final_name[i])]

(***************************************************************************)
(* The state machine: a caller that constructs the Image and then calls    *)
(* its operations in any order, with two Entry cursors (as the example's   *)
(* traverse_directory does with mee and baby).  A read_from_cluster call   *)
(* of the caller advances one pass of its loop per step.                   *)
(***************************************************************************)
EntryIds == {"mee", "baby"}

OobUnits == {0, 65}

\* a byte of the destination buffer that no read has written
Unwritten == -1

NoBootBlock == Geometry(0, 0, 0, 0, 0, 0)

NoCall ==
    [start |-> 0, offset |-> 0, size |-> 0, base |-> 0, total |-> 0,
     st |-> [i |-> 0, wrapped |-> FALSE, cur |-> 0, left |-> 0, done |-> 0,
             dest |-> <<>>, pos |-> 0, io |-> <<>>]]

NoLast ==
    [op |-> "none", id |-> "none", args |-> <<>>, ret |-> 0, out |-> <<>>,
     io |-> <<>>, pos0 |-> 0, before |-> NewEntry]

Call(op, id, args, ret, out, io, pos0, before) ==
    [op |-> op, id |-> id, args |-> args, ret |-> ret, out |-> out, io |-> io,
     pos0 |-> pos0, before |-> before]

Offsets == 0..MaxOffset
Sizes(im) ==
    (0..MaxSize) \cup (IF bytes_per_cluster(im.bb) = 1 THEN {CounterMod} ELSE {})

InitWith(images, signs) ==
    /\ image \in images
    /\ charSigned \in signs
    /\ phase = "new"
    /\ boot_block = NoBootBlock
    /\ pos = 0
    /\ entries = [id \in EntryIds |-> NewEntry]
    /\ call = NoCall
    /\ last = NoLast

\* Image::Image: seek to 0, read sizeof(BootBlock) bytes, ignore a short read
Construct ==
    /\ phase = "new"
    /\ \E r \in {read_func(Img(image), 0, BootBlockSize)} :
          /\ \E junk \in [BootFieldOffsets -> GarbageBytes] :
                boot_block' = DecodeBootBlock(r.data, junk)
          /\ pos' = r.pos
          /\ last' = Call("Image", "none", <<>>, TRUE, <<>>,
                          <<IoRec("boot", 0, BootBlockSize, Len(r.data))>>, 0, NewEntry)
    /\ phase' = "ready"
    /\ UNCHANGED <<image, charSigned, entries, call>>

Successor(target) ==
    /\ phase = "ready"
    /\ \E s \in {get_successor_cluster(Img(image), boot_block, pos, target)} :
          /\ pos' = s.pos
          /\ last' = Call("successor", "none", <<target>>, s.next, <<>>, s.io, pos,
                          NewEntry)
    /\ UNCHANGED <<image, charSigned, phase, boot_block, entries, call>>

\* read_from_cluster, lines 86-110: up to the for loop.  A division by zero
\* either traps or goes on with quotient 0.
ReadStart(start, offset, size) ==
    /\ phase = "ready"
    /\ \E b \in {read_begin(Img(image), boot_block, pos,
                            [i \in 1..size |-> Unwritten], offset, start, size)} :
          /\ call' = [start |-> start, offset |-> offset, size |-> size,
                      base |-> b.base, total |-> b.total, st |-> b.st]
          /\ pos' = b.st.pos
          /\ phase' \in {"reading"} \cup
                        (IF DivisionByZero(boot_block) THEN {"crashed"} ELSE {})
    /\ last' = NoLast
    /\ UNCHANGED <<image, charSigned, boot_block, entries>>

\* one pass of the for loop, while i < total_cluster_to_read
ReadPass ==
    /\ phase = "reading"
    /\ call.st.i < call.total
    /\ \E st \in {ClusterPass(Img(image), boot_block, call.base, call.st)} :
          /\ call' = [call EXCEPT !.st = st]
          /\ pos' = st.pos
    /\ UNCHANGED <<image, charSigned, phase, boot_block, entries, last>>

\* line 128: return size - total_bytes_left_to_read
ReadReturn ==
    /\ phase = "reading"
    /\ ~(call.st.i < call.total)
    /\ phase' = "ready"
    /\ last' = Call("read_from_cluster", "none",
                    <<call.start, call.offset, call.size>>,
                    call.size - call.st.left, call.st.dest, call.st.io, 0, NewEntry)
    /\ call' = NoCall
    /\ UNCHANGED <<image, charSigned, boot_block, pos, entries>>

NextEntry(id) ==
    /\ phase = "ready"
    /\ \E r \in {get_next_entry(Img(image), boot_block, pos, entries[id])} :
          /\ phase' \in {"ready"} \cup (IF r.trap THEN {"crashed"} ELSE {})
          /\ pos' = r.pos
          /\ entries' = [entries EXCEPT ![id] = r.e]
          /\ last' = Call("next_entry", id, <<>>, r.ret, <<>>, r.io, 0, entries[id])
    /\ UNCHANGED <<image, charSigned, boot_block, call>>

FirstEntryDir(parent, first) ==
    /\ phase = "ready"
    /\ \E r \in {get_first_entry_dir(entries[parent], entries[first])} :
          /\ entries' = [entries EXCEPT ![first] = r.first]
          /\ last' = Call("first_entry_of", first, <<parent>>, r.ret, <<>>, <<>>, 0,
                          entries[first])
    /\ UNCHANGED <<image, charSigned, phase, boot_block, pos, call>>

GetFilename(id) ==
    /\ phase = "ready"
    /\ \E oob \in OobUnits :
          last' = Call("filename", id, <<>>, TRUE,
                       Entry_get_filename(entries[id], charSigned, oob), <<>>, 0,
                       entries[id])
    /\ UNCHANGED <<image, charSigned, phase, boot_block, pos, entries, call>>

(***************************************************************************)
(* A caller that reads files and walks the FAT.                            *)
(***************************************************************************)
ReadImages ==
    {"A1", "A2", "A1cut", "A1fatcut", "H", "ZeroBlock", "ZeroUnit", "Short16",
     "Short100"}

InitRead == InitWith(ReadImages, {TRUE})

NextRead ==
    \/ Construct
    \/ \E t \in Img(image).starts \cup {EOC} : Successor(t)
    \/ \E c \in Img(image).starts, o \in Offsets, n \in Sizes(Img(image)) :
          ReadStart(c, o, n)
    \/ ReadPass
    \/ ReadReturn

SpecRead == InitRead /\ [][NextRead]_vars

(***************************************************************************)
(* A caller that lists directories.                                        *)
(***************************************************************************)
DirImages == {"D1", "D2", "D1cut", "ZeroBlock", "Short100"}

InitDir == InitWith(DirImages, {TRUE})

NextDir ==
    \/ Construct
    \/ \E id \in EntryIds : NextEntry(id)
    \/ \E p \in EntryIds, f \in EntryIds : FirstEntryDir(p, f)
    \/ \E id \in EntryIds : GetFilename(id)

SpecDir == InitDir /\ [][NextDir]_vars

(***************************************************************************)
(* A caller that decodes the name of an Entry some directory gave it: up   *)
(* to MaxLfn long-name records in the accumulator and any of the short     *)
(* names below in the fundamental record, on either kind of build.         *)
(***************************************************************************)
ShortNames ==
    {NameHELLO, NameSUB, NameDot, NameDotDot, NameE5ABC, NameDeleted,
     NameCutByNul, NameUnused, NameDot05}

ShortExts == {ExtTXT, ExtNone, ExtNul}

LfnUnits == {UnitsA, UnitsB, UnitsC, UnitsD, UnitsE}

RECURSIVE SeqsUpTo(_, _)
SeqsUpTo(S, n) ==
    IF n = 0 THEN {<<>>}
    ELSE SeqsUpTo(S, n - 1)
           \cup {Append(q, x) : q \in {t \in SeqsUpTo(S, n - 1) : Len(t) = n - 1}, x \in S}

NamedEntries ==
    {[cursor_record |-> RecordSize * (Len(l) + 1), root |-> 0,
      extended_entries |-> [i \in 1..Len(l) |-> LfnRecord(i, l[i], 0)],
      entry |-> FundRecord(n, x, ArchiveBit, 2, 0)] :
        l \in SeqsUpTo(LfnUnits, MaxLfn), n \in ShortNames, x \in ShortExts}

InitName ==
    /\ image = "D1"
    /\ charSigned \in BOOLEAN
    /\ phase = "ready"
    /\ boot_block = Img("D1").bb
    /\ pos = 0
    /\ entries \in {[id \in EntryIds |-> IF id = "mee" THEN e ELSE NewEntry] :
                      e \in NamedEntries}
    /\ call = NoCall
    /\ last = NoLast

NextName == \E id \in EntryIds : GetFilename(id)

SpecName == InitName /\ [][NextName]_vars

(***************************************************************************)
(* What the image holds, read off its bytes without the reader: the FAT    *)
(* chain of a cluster and the bytes of its clusters.  The properties below *)
(* compare the reader's results with these.                                *)
(***************************************************************************)
\* the boot block the constructor decoded is the one the image is laid out by
WellFormed == boot_block = Img(image).lay

CeilDiv(a, b) == (a + b - 1) \div b

\* the FAT entry of cluster c, 0 where the image does not hold both its bytes
FatEntry(im, c) ==
    LET at == fat_region_start(im.lay) + 2 * c
    IN  IF at + 2 <= im.len THEN ImageByte(im, at) + 256 * ImageByte(im, at + 1) ELSE 0

EndOfChain(v) == v = 0 \/ v >= EOC8

\* the first n clusters of the chain that starts at c (fewer if it ends)
RECURSIVE ChainFrom(_, _, _)
ChainFrom(im, c, n) ==
    IF n = 0 THEN <<>>
    ELSE IF EndOfChain(FatEntry(im, c)) THEN <<c>>
    ELSE <<c>> \o ChainFrom(im, FatEntry(im, c), n - 1)

\* how many of the first `bytes` bytes the chain from c has room for
ChainBytes(im, c, bytes) ==
    Min(bytes, Len(ChainFrom(im, c, CeilDiv(bytes, bytes_per_cluster(im.lay))))
                 * bytes_per_cluster(im.lay))

Covers(im, c, bytes) == ChainBytes(im, c, bytes) = bytes

\* every cluster of the chain is a data cluster the image holds in full
ClustersPresent(im, chain) ==
    \A k \in 1..Len(chain) :
        /\ chain[k] >= FirstDataCluster
        /\ chain[k] - 1 <= Len(im.clusters)
        /\ data_region_start(im.lay) + (chain[k] - 1) * bytes_per_cluster(im.lay)
              <= im.len

\* byte i (from 0) of the file whose chain is `chain`
FileByte(im, chain, i) ==
    im.clusters[chain[(i \div bytes_per_cluster(im.lay)) + 1] - 1]
               [(i % bytes_per_cluster(im.lay)) + 1]

ReadReturned == last.op = "read_from_cluster" /\ WellFormed

ArgStart == last.args[1]
ArgOffset == last.args[2]
ArgSize == last.args[3]

\* C1: whenever read_from_cluster returns, for any start cluster, offset and
\* size, the count it returns is at most size, and it is exactly size when
\* the FAT chain of the start cluster covers offset + size bytes.
C1_CountAtMostSize ==
    ReadReturned =>
        /\ last.ret <= ArgSize
        /\ Covers(Img(image), ArgStart, ArgOffset + ArgSize) => last.ret = ArgSize

\* a read of the last three bytes of the three-cluster chain 2 -> 3 -> 4
C1_CoveredRead ==
    /\ ReadReturned
    /\ image = "A1"
    /\ last.args = <<2, 3, 3>>
    /\ Covers(Img(image), ArgStart, ArgOffset + ArgSize)
    /\ last.ret = 3

\* C2: when the chain of the start cluster ends before offset + size bytes
\* are covered, read_from_cluster returns the number of bytes the chain
\* covers from offset on: 0 if the chain ends at or before offset, the
\* partial count otherwise.
C2_PartialCount ==
    ReadReturned =>
        LET have == ChainBytes(Img(image), ArgStart, ArgOffset + ArgSize)
        IN  last.ret = IF have <= ArgOffset THEN 0 ELSE have - ArgOffset

\* a read that asks for more than its chain holds has returned
C2_ShortChainRead ==
    /\ ReadReturned
    /\ ~Covers(Img(image), ArgStart, ArgOffset + ArgSize)

\* C3: a read of [0, size) from the first cluster of a well-formed chain
\* that holds size bytes fills the buffer with the bytes of the chain's
\* clusters in chain order: byte i is byte i mod bytes_per_cluster of the
\* (i div bytes_per_cluster)-th cluster.
C3_WholeFile ==
    (/\ ReadReturned
     /\ ArgOffset = 0
     /\ Covers(Img(image), ArgStart, ArgSize)
     /\ ClustersPresent(Img(image),
            ChainFrom(Img(image), ArgStart, CeilDiv(ArgSize, bytes_per_cluster(boot_block)))))
    => /\ Len(last.out) = ArgSize
       /\ \A i \in 0..(ArgSize - 1) :
             last.out[i + 1] =
                 FileByte(Img(image),
                     ChainFrom(Img(image), ArgStart,
                               CeilDiv(ArgSize, bytes_per_cluster(boot_block))), i)

\* five bytes of the chain 2 -> 5 -> 3, whose clusters are not contiguous
C3_ScatteredFile ==
    /\ ReadReturned
    /\ image = "A2"
    /\ last.args = <<2, 0, 5>>
    /\ last.out = <<33, 34, 81, 82, 49>>

(***************************************************************************)
(* What a directory holds, read off the image without the reader: its      *)
(* 32-byte slots, in the root region (root = 0) or along the cluster chain *)
(* of a subdirectory.                                                      *)
(***************************************************************************)
BytesAt(im, at, n) ==
    IF at >= 0 /\ at + n <= im.len THEN [j \in 1..n |-> ImageByte(im, at + j - 1)]
    ELSE <<>>

SlotsPerCluster(im) == bytes_per_cluster(im.lay) \div RecordSize

\* slot k (from 0) of the directory, <<>> where the directory has none
DirSlot(im, root, k) ==
    IF root = 0
    THEN BytesAt(im, root_directory_region_start(im.lay) + k * RecordSize, RecordSize)
    ELSE LET n == (k \div SlotsPerCluster(im)) + 1
             chain == ChainFrom(im, root, n)
         IN  IF Len(chain) < n THEN <<>>
             ELSE BytesAt(im, data_region_start(im.lay)
                                + (chain[n] - FirstDataCluster) * bytes_per_cluster(im.lay)
                                + (k % SlotsPerCluster(im)) * RecordSize,
                          RecordSize)

\* attribute 0x0F at offset 11 and a zero word at offset 26
LfnSlot(slot) == slot # <<>> /\ slot[12] = LfnAttrib /\ slot[27] = 0 /\ slot[28] = 0

\* the maximal run of consecutive long-name slots that starts at slot k
RECURSIVE LfnRun(_, _, _, _)
LfnRun(im, root, k, fuel) ==
    IF fuel = 0 \/ ~LfnSlot(DirSlot(im, root, k)) THEN <<>>
    ELSE <<DirSlot(im, root, k)>> \o LfnRun(im, root, k + 1, fuel - 1)

RunBefore ==
    LfnRun(Img(image), last.before.root, last.before.cursor_record \div RecordSize,
           Img(image).len \div RecordSize)

NextEntryReturned == last.op = "next_entry" /\ WellFormed

\* C4: every next_entry call that yields an entry leaves cursor_record
\* strictly greater than it was before the call, and cursor_record is always
\* a multiple of 32.
C4_Monotone ==
    /\ \A id \in EntryIds : entries[id].cursor_record % RecordSize = 0
    /\ (last.op = "next_entry" /\ last.ret = TRUE)
          => entries[last.id].cursor_record > last.before.cursor_record

\* a call that took two long-name records and the record they name
C4_RunConsumed ==
    /\ last.op = "next_entry"
    /\ last.ret = TRUE
    /\ last.before.cursor_record > 0
    /\ entries[last.id].cursor_record = last.before.cursor_record + 3 * RecordSize

\* C5: after every next_entry call that returns true, the accumulator holds
\* exactly the maximal run of long-name slots that starts at the cursor
\* position before the call, in on-disk order, and the fundamental record is
\* the slot that follows the run.
C5_AccumulatorIsRun ==
    (NextEntryReturned /\ last.ret = TRUE) =>
        /\ entries[last.id].extended_entries = RunBefore
        /\ entries[last.id].entry =
              DirSlot(Img(image), last.before.root,
                      (last.before.cursor_record \div RecordSize) + Len(RunBefore))

\* a call on a subdirectory cursor has returned true with a non-empty
\* accumulator
C5_SubdirRun ==
    /\ NextEntryReturned
    /\ last.ret = TRUE
    /\ last.before.root # 0
    /\ entries[last.id].extended_entries # <<>>

\* C6: on a subdirectory cursor next_entry returns false only after a read
\* through the cluster reader, and only where the chain has no record left
\* to yield: the slot behind the run of long-name slots at the cursor does
\* not exist.  The root-directory entry count plays no part.
C6_SubdirUnbounded ==
    (NextEntryReturned /\ last.before.root # 0 /\ last.ret = FALSE) =>
        /\ last.io # <<>>
        /\ DirSlot(Img(image), last.before.root,
                   (last.before.cursor_record \div RecordSize) + Len(RunBefore)) = <<>>

\* a call on a subdirectory cursor has returned false
C6_SubdirEnded ==
    /\ NextEntryReturned
    /\ last.before.root # 0
    /\ last.ret = FALSE

(***************************************************************************)
(* Construction and the chain walker.                                      *)
(***************************************************************************)
\* fewer than 512 bytes, or a zero bytes-per-block or blocks-per-unit field
MalformedBootBlock(im) ==
    \/ im.len < BootBlockSize
    \/ im.bb.bytes_per_block = 0
    \/ im.bb.num_blocks_per_allocation_unit = 0

\* C7: constructing an Image over a source that supplies fewer than 512
\* bytes, or whose boot block has zero bytes-per-block or zero
\* blocks-per-allocation-unit, fails: no such Image is ever ready for
\* read_from_cluster or next_entry.
C7_MalformedRejected ==
    MalformedBootBlock(Img(image)) => phase \notin {"ready", "reading", "crashed"}

\* C8: after every successor call, one whose FAT read comes back short
\* included, the cursor of the source is where it was before the call.
C8_CursorRestored ==
    (last.op = "successor" /\ WellFormed) => pos = last.pos0

\* a successor call whose two-byte FAT read came back short has returned 0
C8_ShortFatRead ==
    /\ last.op = "successor"
    /\ WellFormed
    /\ last.io[1].got < ClusterIdSize
    /\ last.ret = 0

(***************************************************************************)
(* Names, as the format defines them.                                      *)
(***************************************************************************)
\* the short name: the 8 filename bytes, a leading 0x2E stripped, a leading
\* 0x05 turned into 0xE5, spaces trimmed, the extension appended, spaces
\* trimmed again; each byte one code unit
ShortNameOf(rec) ==
    LET raw == SubSeq(rec, 1, 8)
        stem == IF raw[1] = MarkDot THEN Tail(raw) ELSE raw
        lead == IF stem # <<>> /\ stem[1] = MarkE5
                THEN <<MarkDeleted>> \o Tail(stem) ELSE stem
    IN  TrimSpaces(TrimSpaces(lead) \o SubSeq(rec, 9, 11))

\* the 13 code units of a long-name record: 5 at offset 1, 6 at offset 14,
\* 2 at offset 28
UnitOffsets == <<1, 3, 5, 7, 9, 14, 16, 18, 20, 22, 24, 28, 30>>

UnitsOf(rec) ==
    [k \in 1..Len(UnitOffsets) |->
        rec[UnitOffsets[k] + 1] + 256 * rec[UnitOffsets[k] + 2]]

\* the units of the records from the last pushed to the first pushed
RECURSIVE UnitsLastToFirst(_)
UnitsLastToFirst(recs) ==
    IF recs = <<>> THEN <<>>
    ELSE UnitsOf(recs[Len(recs)]) \o UnitsLastToFirst(SubSeq(recs, 1, Len(recs) - 1))

\* the units that precede the first 0x0000
RECURSIVE UntilZero(_)
UntilZero(units) ==
    IF units = <<>> \/ Head(units) = 0 THEN <<>>
    ELSE <<Head(units)>> \o UntilZero(Tail(units))

FilenameReturned == last.op = "filename"

\* C9: with an empty accumulator, filename() is the 8 filename bytes with a
\* leading 0x2E stripped (and no other leading byte), a leading 0x05 given
\* as the unit 0x00E5, spaces trimmed, the 3 extension bytes appended and
\* spaces trimmed again.
C9_ShortName ==
    (FilenameReturned /\ last.before.extended_entries = <<>>)
        => last.out = ShortNameOf(last.before.entry)

\* the name of {0x05,'A','B','C',' ',' ',' ',' '} with extension "TXT" has
\* been decoded
C9_LeadingFive ==
    /\ FilenameReturned
    /\ last.before.extended_entries = <<>>
    /\ SubSeq(last.before.entry, 1, 11) = NameE5ABC \o ExtTXT

\* C10: with a non-empty accumulator, filename() is the units of the records
\* taken from the last pushed to the first pushed, each record's 13 units in
\* the order 5, 6, 2, up to and without the first 0x0000 met in that order.
C10_LongName ==
    (FilenameReturned /\ last.before.extended_entries # <<>>)
        => last.out = UntilZero(UnitsLastToFirst(last.before.extended_entries))

\* two records pushed in on-disk order: the name continues from the record
\* pushed last into the one pushed first and ends at its 0x0000
C10_TwoRecords ==
    /\ FilenameReturned
    /\ Len(last.before.extended_entries) = 2
    /\ last.out = UnitsA \o SubSeq(UnitsB, 1, 5)

(***************************************************************************)
(* Descent into a subdirectory.                                            *)
(***************************************************************************)
FirstEntryReturned == last.op = "first_entry_of"

\* the fundamental record of the parent of the last first_entry_of call (the
\* call does not write it, also when parent and out are one Entry)
ParentRecord == entries[last.args[1]].entry

\* bit 0x10 of the attribute byte at offset 11
DirectoryFlag(rec) == (rec[12] \div 16) % 2 = 1

\* C11: first_entry_of(parent, out) returns false and leaves out as it was
\* when the directory bit of parent's fundamental record is clear; otherwise
\* it returns true with out.root = parent's starting cluster and
\* out.cursor_record = 0, and a next_entry on such a cursor starts reading at
\* byte 0 of the first cluster of that chain.
C11_FirstEntryOf ==
    /\ FirstEntryReturned =>
          IF DirectoryFlag(ParentRecord)
          THEN /\ last.ret = TRUE
               /\ entries[last.id].root = ParentRecord[27] + 256 * ParentRecord[28]
               /\ entries[last.id].cursor_record = 0
          ELSE /\ last.ret = FALSE
               /\ entries[last.id] = last.before
    /\ (/\ NextEntryReturned
        /\ last.before.root # 0
        /\ last.before.cursor_record = 0
        /\ last.io # <<>>)
          => last.io[1].at =
                 data_region_start(Img(image).lay)
                   + (last.before.root - FirstDataCluster)
                       * bytes_per_cluster(Img(image).lay)

\* a cursor that had advanced in the root directory was set to the start of
\* the subdirectory at cluster 3
C11_Descended ==
    /\ FirstEntryReturned
    /\ last.ret = TRUE
    /\ last.before.cursor_record > 0
    /\ entries[last.id].root = 3
    /\ entries[last.id].cursor_record = 0

(***************************************************************************)
(* The physical reads of one read_from_cluster call.                       *)
(***************************************************************************)
IsDataRead(x) == x.kind = "data"

\* where each read of cluster content went and how many bytes it asked for
DataReads ==
    LET d == SelectSeq(last.io, IsDataRead)
    IN  [k \in 1..Len(d) |-> [at |-> d[k].at, want |-> d[k].want]]

\* one read per cluster from chain[k] on: co is added to, and taken off, the
\* first read only
RECURSIVE ReadsPerCluster(_, _, _, _, _)
ReadsPerCluster(im, chain, k, co, remaining) ==
    IF remaining = 0 THEN <<>>
    ELSE <<[at |-> data_region_start(im.lay)
                     + (chain[k] - FirstDataCluster) * bytes_per_cluster(im.lay) + co,
            want |-> Min(bytes_per_cluster(im.lay) - co, remaining)]>>
         \o ReadsPerCluster(im, chain, k + 1, 0,
                remaining - Min(bytes_per_cluster(im.lay) - co, remaining))

\* C12: read_from_cluster issues one read per chain cluster: the first at
\* data_region_start + (cluster - 2) * bytes_per_cluster + co for
\* min(bytes_per_cluster - co, remaining) bytes, with co = offset mod
\* bytes_per_cluster, every later one at the start of its cluster for
\* min(bytes_per_cluster, remaining) bytes; no read crosses the end of its
\* cluster.
C12_ReadsPerCluster ==
    (ReadReturned /\ Covers(Img(image), ArgStart, ArgOffset + ArgSize)) =>
        DataReads =
            ReadsPerCluster(Img(image),
                ChainFrom(Img(image), ArgStart,
                    CeilDiv(ArgOffset + ArgSize, bytes_per_cluster(Img(image).lay))),
                (ArgOffset \div bytes_per_cluster(Img(image).lay)) + 1,
                ArgOffset % bytes_per_cluster(Img(image).lay),
                ArgSize)

\* a read that starts inside a cluster and ends in a later one has returned
C12_UnalignedRead ==
    /\ ReadReturned
    /\ Covers(Img(image), ArgStart, ArgOffset + ArgSize)
    /\ ArgOffset % bytes_per_cluster(Img(image).lay) # 0
    /\ ArgSize > bytes_per_cluster(Img(image).lay)

(***************************************************************************)
(* The reads of a next_entry call on the root directory.                   *)
(***************************************************************************)
RootRegionEnd(im) ==
    root_directory_region_start(im.lay) + im.lay.num_root_dirs * RecordSize

\* C13: a next_entry call on a root cursor (root = 0) reads no byte outside
\* the root directory region: each of its 32-byte reads, of a long-name
\* candidate or of the fundamental record, lies within
\* [root_directory_region_start, root_directory_region_start +
\* num_root_dirs * 32).
C13_RootReadsInRegion ==
    (NextEntryReturned /\ last.before.root = 0) =>
        \A k \in 1..Len(last.io) :
            /\ last.io[k].at >= root_directory_region_start(Img(image).lay)
            /\ last.io[k].at + last.io[k].want <= RootRegionEnd(Img(image))

\* a call on a root cursor has taken long-name records up to the last slot
\* of the region
C13_RunAtRegionEnd ==
    /\ NextEntryReturned
    /\ last.before.root = 0
    /\ entries[last.id].extended_entries # <<>>
    /\ root_directory_region_start(Img(image).lay) + last.before.cursor_record
          + Len(entries[last.id].extended_entries) * RecordSize
          = RootRegionEnd(Img(image))

(***************************************************************************)
(* Termination of read_from_cluster.  The code is sequential: a call that  *)
(* is inside its loop makes its next pass, and one whose loop has ended    *)
(* returns.  (The walk to the first cluster is part of ReadStart: it makes *)
(* from_start_cluster_dist steps and ends, whatever the FAT holds.)        *)
(***************************************************************************)
SpecReadFair ==
    InitRead /\ [][NextRead]_vars /\ WF_vars(ReadPass) /\ WF_vars(ReadReturn)

\* C14: every call of read_from_cluster ends: a call that has entered its
\* loop leaves it after finitely many passes, whatever the offset, the size
\* and the FAT hold.
C14_ReadTerminates == (phase = "reading") ~> (phase # "reading")

\* the 8-bit loop counter of a call in progress has wrapped to 0
C14_CounterWrapped ==
    /\ phase = "reading"
    /\ call.st.wrapped
    /\ call.st.i < call.total

====
